---- MODULE Spec2Model ----
(***************************************************************************)
(* The SIGN_PSBT command of the Bitcoin application                        *)
(* (src/src/handler/sign_psbt.c) as a state machine.                       *)
(*                                                                         *)
(* One action per C function of the file.  The dispatcher runs the         *)
(* processor named by the last dc->next(), or waits for the host while a   *)
(* flow (call_xxx) is in progress and then runs the flow's continuation.   *)
(* The flows themselves (Merkle map accessors, raw transaction parser) are *)
(* not part of sign_psbt.c: they are modelled from the specification.      *)
(***************************************************************************)
EXTENDS Integers, Sequences, FiniteSets, TLC

VARIABLES
    pc,           \* "idle", "flow", "returned", or the processor dc->next() named
    flow,         \* the flow in progress, with the arguments of its call_xxx
    apdu,         \* the command being served: p1, p2, pin state, dc->read_buffer
    unsigned_tx,  \* the transaction the global map's roots commit to
    state,        \* G_command_state, seen as sign_psbt_state_t
    private_key,  \* storage of compute_sighash_and_sign_legacy's private_key
    chain_code,   \* storage of compute_sighash_and_sign_legacy's chain_code
    sw,           \* statuses sent with dc->send_sw for the command being served
    steps,        \* the functions of sign_psbt.c run for this command, in order
    signed,       \* calls of cx_ecdsa_sign for this command: input and preimage
    prior         \* what the command before left in the fields of G_command_state
                  \* that sign_psbt.c reads before it writes them

vars == <<pc, flow, apdu, unsigned_tx, state, private_key, chain_code,
          sw, steps, signed, prior>>

----------------------------------------------------------------------------
(* Bounds of the model *)

\* inputs of the committed unsigned transaction: 0..MaxInputs
MaxInputs == 2
\* outputs of the committed unsigned transaction: 1..MaxOutputs
MaxOutputs == 2
\* distinct previous transactions the host can supply
NumPrevTx == 2

----------------------------------------------------------------------------
(* Program constants *)

\* the largest count handler_sign_psbt accepts
MAX_N_MAP_ENTRIES == 252
\* 1 + 20 + 1: OP_HASH160 <20 bytes> OP_EQUAL
P2SH_SCRIPT_LEN == 22
\* the longest scriptPubKey the command state stores (constants.h); only
\* whether a script is longer matters here
MAX_PREVOUT_SCRIPTPUBKEY_LEN == 34

SW_OK == "SW_OK"
SW_WRONG_P1P2 == "SW_WRONG_P1P2"
SW_SECURITY_STATUS_NOT_SATISFIED == "SW_SECURITY_STATUS_NOT_SATISFIED"
SW_WRONG_DATA_LENGTH == "SW_WRONG_DATA_LENGTH"
SW_INCORRECT_DATA == "SW_INCORRECT_DATA"
SW_SIGNATURE_FAIL == "SW_SIGNATURE_FAIL"
SW_BAD_STATE == "SW_BAD_STATE"

PSBT_GLOBAL_UNSIGNED_TX == "PSBT_GLOBAL_UNSIGNED_TX"
PSBT_IN_NON_WITNESS_UTXO == "PSBT_IN_NON_WITNESS_UTXO"
PSBT_IN_WITNESS_UTXO == "PSBT_IN_WITNESS_UTXO"
PSBT_IN_REDEEM_SCRIPT == "PSBT_IN_REDEEM_SCRIPT"
PSBT_IN_SIGHASH_TYPE == "PSBT_IN_SIGHASH_TYPE"

PARSEMODE_TXID == "PARSEMODE_TXID"
PARSEMODE_LEGACY_PASS1 == "PARSEMODE_LEGACY_PASS1"
PARSEMODE_LEGACY_PASS2 == "PARSEMODE_LEGACY_PASS2"

InputKeyTypes ==
    {PSBT_IN_NON_WITNESS_UTXO, PSBT_IN_WITNESS_UTXO,
     PSBT_IN_REDEEM_SCRIPT, PSBT_IN_SIGHASH_TYPE}

----------------------------------------------------------------------------
(* Byte strings, scripts and hashes *)

\* the 4-byte little-endian values a PSBT_IN_SIGHASH_TYPE entry can hold:
\* SIGHASH_ALL and SIGHASH_ALL | SIGHASH_ANYONECANPAY
SighashValues == { <<1, 0, 0, 0>>, <<129, 0, 0, 0>> }

\* the redeem scripts a PSBT_IN_REDEEM_SCRIPT entry can hold: OP_1, OP_2
RedeemScripts == { <<81>>, <<82>> }

NoBytes == <<>>

\* read_u32_le(buf, 0)
read_u32_le(b) == b[1] + 256 * b[2] + 65536 * b[3] + 16777216 * b[4]

\* a scriptPubKey: its length in bytes and what its bytes say
Script(len, bytes) == [len |-> len, bytes |-> bytes]

\* OP_DUP OP_HASH160 <20-byte key hash> OP_EQUALVERIFY OP_CHECKSIG
P2PKHScript == Script(25, <<118, 169, 20, 136, 172>>)

\* OP_HASH160 <hash160(script)> OP_EQUAL; hash160 is kept symbolic and
\* injective: the 20 bytes are stood for by the hashed script itself
P2SHScript(script) == Script(P2SH_SCRIPT_LEN, <<169, 20>> \o script \o <<135>>)

\* a scriptPubKey one byte longer than the application stores
LongScript == Script(MAX_PREVOUT_SCRIPTPUBKEY_LEN + 1, <<106>>)

NoScript == Script(0, NoBytes)

ScriptPubKeys ==
    {P2PKHScript, LongScript}
        \cup {P2SHScript(r) : r \in RedeemScripts}
        \cup {P2SHScript(v) : v \in SighashValues}

----------------------------------------------------------------------------
(* Transactions *)

\* A transaction: out_spk is the scriptPubKey of its output 0; input i of
\* the unsigned transaction spends output 0 of the previous transaction
\* number i, whose scriptPubKey is prev_spk.
Tx(id, nin, nout, out, prev) ==
    [id |-> id, n_inputs |-> nin, n_outputs |-> nout,
     out_spk |-> out, prev_spk |-> prev]

\* previous transactions are numbered from 0, the unsigned transaction is -1
NoTx == Tx(-2, 0, 0, NoScript, NoScript)

UnsignedTxs ==
    { Tx(-1, i, o, P2PKHScript, s) :
        i \in 0..MaxInputs, o \in 1..MaxOutputs, s \in ScriptPubKeys }

PrevTx(id, spk) == Tx(id, 1, 1, spk, P2PKHScript)

\* what the host can put under PSBT_IN_NON_WITNESS_UTXO
PrevTxs == { PrevTx(id, s) : id \in 0..(NumPrevTx - 1), s \in ScriptPubKeys }

\* an element fed to the running SHA-256 context
Item(kind, tx, idx, sht, len, bytes) ==
    [kind |-> kind, tx |-> tx, input_index |-> idx, sighash_type |-> sht,
     len |-> len, bytes |-> bytes]

\* cx_sha256_init
cx_sha256_init == <<>>

\* crypto_hash_digest followed by cx_hash_sha256 of the digest: the double
\* SHA-256 of everything fed to the context, kept symbolic and injective
NoHash == [alg |-> "none", of |-> <<>>]
DoubleSha256(ctx) == [alg |-> "sha256d", of |-> ctx]

\* what PARSEMODE_TXID feeds to the context: the whole transaction
TxidItem(tx) == Item(PARSEMODE_TXID, tx, 0, 0, 0, NoBytes)

TxId(tx) == DoubleSha256(<<TxidItem(tx)>>)

\* the prevout (hash, n) of input i of the unsigned transaction t
PrevoutHash(t, i) == TxId(PrevTx(i, t.prev_spk))

----------------------------------------------------------------------------
(* Input maps *)

\* The authenticated map of one input: the key types it holds and the values
\* stored under them (a fixed value where the key is absent).
InputMap(keys, sighash_le, redeem, nwu) ==
    [keys |-> keys, sighash_le |-> sighash_le, redeem |-> redeem, nwu |-> nwu]

NoMap == InputMap({}, NoBytes, NoBytes, NoTx)

WellFormedMap(m) ==
    /\ (PSBT_IN_SIGHASH_TYPE \in m.keys) <=> (m.sighash_le # NoBytes)
    /\ (PSBT_IN_REDEEM_SCRIPT \in m.keys) <=> (m.redeem # NoBytes)
    /\ (PSBT_IN_NON_WITNESS_UTXO \in m.keys) <=> (m.nwu # NoTx)

\* the maps the host can commit to for an input
InputMaps ==
    { m \in { InputMap(k, s, r, t) :
                k \in SUBSET InputKeyTypes,
                s \in SighashValues \cup {NoBytes},
                r \in RedeemScripts \cup {NoBytes},
                t \in PrevTxs \cup {NoTx} } : WellFormedMap(m) }

\* the byte string stored under a key of an input map
MapValue(m, key) ==
    CASE key = PSBT_IN_SIGHASH_TYPE -> m.sighash_le
      [] key = PSBT_IN_REDEEM_SCRIPT -> m.redeem
      [] OTHER -> NoBytes

----------------------------------------------------------------------------
(* The command *)

Varint(v) == [type |-> "varint", v |-> v]
Bytes20 == [type |-> "bytes20", v |-> 0]

\* the command data in full: global map size and roots, number of inputs
\* and root, number of outputs and root
CommandLayout(gsize, nin, nout) ==
    << Varint(gsize), Bytes20, Bytes20, Varint(nin), Bytes20, Varint(nout), Bytes20 >>

GlobalMapSizes == {1, MAX_N_MAP_ENTRIES, MAX_N_MAP_ENTRIES + 1}
DeclaredInputs == (0..MaxInputs) \cup {MAX_N_MAP_ENTRIES, MAX_N_MAP_ENTRIES + 1}
DeclaredOutputs == (1..MaxOutputs) \cup {MAX_N_MAP_ENTRIES, MAX_N_MAP_ENTRIES + 1}

\* dc->read_buffer: the command data or any truncation of it
ReadBuffers ==
    { SubSeq(CommandLayout(g, i, o), 1, k) :
        g \in GlobalMapSizes, i \in DeclaredInputs, o \in DeclaredOutputs,
        k \in 0..7 }

Commands ==
    [p1 : 0..1, p2 : 0..1, pin_validated : BOOLEAN, read_buffer : ReadBuffers]

NoCommand == [p1 |-> 0, p2 |-> 0, pin_validated |-> FALSE, read_buffer |-> <<>>]

\* buffer_read_varint / buffer_read_bytes at field `pos` of the buffer
buffer_read_varint(buf, pos) == pos <= Len(buf) /\ buf[pos].type = "varint"
buffer_read_bytes(buf, pos) == pos <= Len(buf) /\ buf[pos].type = "bytes20"

----------------------------------------------------------------------------
(* The command state and the dispatcher *)

\* state->subcontext: the storage the flows work in and leave their results in
SubContext(nin, nout, hash, n, spk, p2sh) ==
    [n_inputs |-> nin, n_outputs |-> nout, prevout_hash |-> hash,
     prevout_n |-> n, vout_scriptpubkey |-> spk, p2sh_script |-> p2sh]

NoSubContext == SubContext(0, 0, NoHash, 0, NoScript, NoScript)

\* G_command_state when a command starts: zero-initialised storage, reset
\* by the dispatcher for every new command
ZeroState ==
    [global_map_size |-> 0,
     n_inputs |-> 0,
     n_outputs |-> 0,
     cur_input_index |-> 0,
     cur_prevout_hash |-> NoHash,
     cur_prevout_n |-> 0,
     cur_input_has_witnessUtxo |-> FALSE,
     cur_input_has_redeemScript |-> FALSE,
     cur_input_has_sighash_type |-> FALSE,
     cur_input_map |-> NoMap,
     cur_input_sighash_type_le |-> NoBytes,
     cur_input_sighash_type |-> 0,
     cur_input_prevout_scriptpubkey_len |-> 0,
     cur_input_prevout_scriptpubkey |-> NoBytes,
     hash_context |-> cx_sha256_init,
     tmp |-> "",
     subcontext |-> NoSubContext]

\* the fields of the command state that a function of sign_psbt.c reads
\* before any function has written them for the command being served:
\* cur_input_index (process_next_input) and cur_input_has_sighash_type
\* (process_input_map, set but never cleared by the key scan)
Leftover(st) ==
    [cur_input_index |-> st.cur_input_index,
     cur_input_has_sighash_type |-> st.cur_input_has_sighash_type]

\* the arguments of a call_xxx: the flow, its continuation, the map and the
\* key it reads, and what call_psbt_parse_rawtx is asked for
Flow(name, cont, map, size, key, mode, input_index, output_index, sighash_type) ==
    [name |-> name, cont |-> cont, map |-> map, size |-> size, key |-> key,
     mode |-> mode, input_index |-> input_index,
     output_index |-> output_index, sighash_type |-> sighash_type]

NoFlow == Flow("", "", "", 0, "", "", 0, 0, 0)

\* the storage of a local buffer: not allocated, all zero, or holding a secret
BufferContents == {"none", "zero", "secret"}

Init ==
    /\ pc = "idle"
    /\ flow = NoFlow
    /\ apdu = NoCommand
    /\ unsigned_tx = NoTx
    /\ state = ZeroState
    /\ private_key = "none"
    /\ chain_code = "none"
    /\ sw = <<>>
    /\ steps = <<>>
    /\ signed = <<>>
    /\ prior = Leftover(ZeroState)

\* dc->send_sw(status); return;
send_sw(status) ==
    /\ sw' = Append(sw, status)
    /\ pc' = "returned"
    /\ flow' = NoFlow

\* dc->next(processor)
next(processor) ==
    /\ pc' = processor
    /\ flow' = NoFlow
    /\ sw' = sw

\* call_xxx(dc, ..., continuation, ...): the flow starts and the state
\* machine waits for the host
call(f) ==
    /\ pc' = "flow"
    /\ flow' = f
    /\ sw' = sw

\* LOG_PROCESSOR: the function joins the record of the functions run
Ran(name) == steps' = Append(steps, name)

----------------------------------------------------------------------------
(* handler_sign_psbt *)

\* the bound taken one too high
CountTooLarge_OffByOne(n) == n > MAX_N_MAP_ENTRIES + 1

\* state->global_map.size > 252, n_inputs > 252, n_outputs > 252
CountTooLarge(n) == n > MAX_N_MAP_ENTRIES

\* The checks of handler_sign_psbt in the order of the code: the status it
\* sends ("" when it sends none and starts the Merkle check) and the command
\* state it leaves.
HandlerResult(cmd, st) ==
    LET buf == cmd.read_buffer
        st1 == [st EXCEPT !.global_map_size = buf[1].v]
        st2 == [st1 EXCEPT !.n_inputs = buf[4].v]
        st3 == [st2 EXCEPT !.n_outputs = buf[6].v]
    IN  IF cmd.p1 # 0 \/ cmd.p2 # 0
          THEN [status |-> SW_WRONG_P1P2, state |-> st]
        ELSE IF ~cmd.pin_validated
          THEN [status |-> SW_SECURITY_STATUS_NOT_SATISFIED, state |-> st]
        ELSE IF ~buffer_read_varint(buf, 1)
          THEN [status |-> SW_WRONG_DATA_LENGTH, state |-> st]
        ELSE IF CountTooLarge(buf[1].v)
          THEN [status |-> SW_INCORRECT_DATA, state |-> st1]
        ELSE IF ~buffer_read_bytes(buf, 2) \/ ~buffer_read_bytes(buf, 3)
          THEN [status |-> SW_WRONG_DATA_LENGTH, state |-> st1]
        ELSE IF ~buffer_read_varint(buf, 4) \/ ~buffer_read_bytes(buf, 5)
          THEN [status |-> SW_WRONG_DATA_LENGTH, state |-> st1]
        ELSE IF CountTooLarge(buf[4].v)
          THEN [status |-> SW_INCORRECT_DATA, state |-> st1]
        ELSE IF ~buffer_read_varint(buf, 6) \/ ~buffer_read_bytes(buf, 7)
          THEN [status |-> SW_WRONG_DATA_LENGTH, state |-> st2]
        ELSE IF CountTooLarge(buf[6].v)
          THEN [status |-> SW_INCORRECT_DATA, state |-> st2]
        ELSE [status |-> "", state |-> st3]

\* A SIGN_PSBT command arrives when no other is being served.
handler_sign_psbt ==
    /\ pc = "idle"
    /\ \E cmd \in Commands :
         LET r == HandlerResult(cmd, state)
         IN  /\ apdu' = cmd
             /\ state' = r.state
             /\ IF r.status = ""
                   THEN /\ pc' = "flow"
                        /\ flow' = Flow("check_merkle_tree_sorted", "process_next_input",
                                        "global_map", r.state.global_map_size,
                                        "", "", 0, 0, 0)
                        /\ sw' = <<>>
                   ELSE /\ pc' = "returned"
                        /\ flow' = NoFlow
                        /\ sw' = <<r.status>>
    /\ steps' = <<"handler_sign_psbt">>
    /\ UNCHANGED <<prior, unsigned_tx, private_key, chain_code, signed>>

\* the dispatcher leaving the command state as the command left it
command_end_StateKept ==
    /\ pc = "returned"
    /\ pc' = "idle"
    /\ prior' = Leftover(state)
    /\ state' = state
    /\ apdu' = NoCommand
    /\ unsigned_tx' = NoTx
    /\ private_key' = "none"
    /\ chain_code' = "none"
    /\ sw' = <<>>
    /\ steps' = <<>>
    /\ signed' = <<>>
    /\ flow' = NoFlow

\* The dispatcher between two commands.  The command is over (a status was
\* sent, or the last processor returned without naming a next one); the
\* next command finds the session state reset and the stack storage of the
\* locals gone.
command_end ==
    /\ pc = "returned"
    /\ pc' = "idle"
    /\ prior' = Leftover(state)
    /\ state' = ZeroState
    /\ apdu' = NoCommand
    /\ unsigned_tx' = NoTx
    /\ private_key' = "none"
    /\ chain_code' = "none"
    /\ sw' = <<>>
    /\ steps' = <<>>
    /\ signed' = <<>>
    /\ flow' = NoFlow

----------------------------------------------------------------------------
(* The flows.  Each is started by a call_xxx, exchanges requests with the   *)
(* host and, when the host's answers check out against the committed roots, *)
(* leaves its result and runs its continuation.                             *)

\* any flow, on an answer that does not check out: the session is aborted
flow_failed ==
    /\ pc = "flow"
    /\ send_sw(SW_INCORRECT_DATA)
    /\ UNCHANGED <<prior, apdu, unsigned_tx, state, private_key, chain_code, steps, signed>>

\* call_check_merkle_tree_sorted: the keys of the map are sorted
check_merkle_tree_sorted ==
    /\ pc = "flow"
    /\ flow.name = "check_merkle_tree_sorted"
    /\ next(flow.cont)
    /\ UNCHANGED <<prior, apdu, unsigned_tx, state, private_key, chain_code, steps, signed>>

\* what a replay of transaction t feeds to the hash context in a parse mode
ParseItem(mode, t, input_index, sighash_type) ==
    IF mode = PARSEMODE_TXID
      THEN TxidItem(t)
      ELSE Item(mode, t, input_index, sighash_type, 0, NoBytes)

\* what a replay of transaction t leaves in the subcontext: the counts, the
\* prevout of the input asked for and the scriptPubKey of the output asked for
ParseResult(t, input_index, output_index) ==
    SubContext(t.n_inputs, t.n_outputs,
               IF t.id = -1 /\ input_index \in 0..(t.n_inputs - 1)
                 THEN PrevoutHash(t, input_index) ELSE NoHash,
               0,
               IF output_index \in 0..(t.n_outputs - 1)
                 THEN t.out_spk ELSE NoScript,
               NoScript)

\* call_psbt_parse_rawtx: the transaction stored under the key is replayed
\* into the hash context.  The global map's transaction is the one its roots
\* commit to: the first replay learns it, the later ones see the same.
psbt_parse_rawtx ==
    /\ pc = "flow"
    /\ flow.name = "psbt_parse_rawtx"
    /\ \E t \in UnsignedTxs \cup PrevTxs :
         /\ IF flow.map = "global_map"
              THEN /\ flow.key = PSBT_GLOBAL_UNSIGNED_TX
                   /\ t \in UnsignedTxs
                   /\ unsigned_tx # NoTx => t = unsigned_tx
                   /\ unsigned_tx' = t
              ELSE /\ flow.key = PSBT_IN_NON_WITNESS_UTXO
                   /\ flow.key \in state.cur_input_map.keys
                   /\ t = state.cur_input_map.nwu
                   /\ unsigned_tx' = unsigned_tx
         /\ state' = [state EXCEPT
                !.hash_context = Append(@, ParseItem(flow.mode, t, flow.input_index,
                                                     flow.sighash_type)),
                !.subcontext = ParseResult(t, flow.input_index, flow.output_index)]
    /\ next(flow.cont)
    /\ UNCHANGED <<prior, apdu, private_key, chain_code, steps, signed>>

\* the callback with the last two key types taken for each other
input_keys_callback_KeysSwapped(st, key_type) ==
    IF key_type = PSBT_IN_WITNESS_UTXO
      THEN [st EXCEPT !.cur_input_has_witnessUtxo = TRUE]
    ELSE IF key_type = PSBT_IN_SIGHASH_TYPE
      THEN [st EXCEPT !.cur_input_has_redeemScript = TRUE]
    ELSE IF key_type = PSBT_IN_REDEEM_SCRIPT
      THEN [st EXCEPT !.cur_input_has_sighash_type = TRUE]
    ELSE st

\* the callback without the case of PSBT_IN_WITNESS_UTXO
input_keys_callback_NoWitnessUtxo(st, key_type) ==
    IF key_type = PSBT_IN_REDEEM_SCRIPT
      THEN [st EXCEPT !.cur_input_has_redeemScript = TRUE]
    ELSE IF key_type = PSBT_IN_SIGHASH_TYPE
      THEN [st EXCEPT !.cur_input_has_sighash_type = TRUE]
    ELSE st

\* input_keys_callback: one key of the current input's map
input_keys_callback(st, key_type) ==
    IF key_type = PSBT_IN_WITNESS_UTXO
      THEN [st EXCEPT !.cur_input_has_witnessUtxo = TRUE]
    ELSE IF key_type = PSBT_IN_REDEEM_SCRIPT
      THEN [st EXCEPT !.cur_input_has_redeemScript = TRUE]
    ELSE IF key_type = PSBT_IN_SIGHASH_TYPE
      THEN [st EXCEPT !.cur_input_has_sighash_type = TRUE]
    ELSE st

\* the callback run on every key of a map
RECURSIVE ScanKeys(_, _)
ScanKeys(st, keys) ==
    IF keys = {} THEN st
    ELSE LET k == CHOOSE x \in keys : TRUE
         IN  ScanKeys(input_keys_callback(st, k), keys \ {k})

\* call_get_merkleized_map_with_callback: element `input_index` of the
\* collection of `size` maps is fetched, its keys are passed to the
\* callback and its commitment is left in cur_input_map
get_merkleized_map ==
    /\ pc = "flow"
    /\ flow.name = "get_merkleized_map"
    /\ flow.input_index \in 0..(flow.size - 1)
    /\ \E m \in InputMaps :
         state' = [ScanKeys(state, m.keys) EXCEPT !.cur_input_map = m]
    /\ next(flow.cont)
    /\ UNCHANGED <<prior, apdu, unsigned_tx, private_key, chain_code, steps, signed>>

\* call_get_merkleized_map_value: the value stored under the key is copied
\* to the output buffer (here always cur_input_sighash_type_le)
get_merkleized_map_value ==
    /\ pc = "flow"
    /\ flow.name = "get_merkleized_map_value"
    /\ flow.key \in state.cur_input_map.keys
    /\ MapValue(state.cur_input_map, flow.key) # NoBytes
    /\ state' = [state EXCEPT
           !.cur_input_sighash_type_le = MapValue(state.cur_input_map, flow.key)]
    /\ next(flow.cont)
    /\ UNCHANGED <<prior, apdu, unsigned_tx, private_key, chain_code, steps, signed>>

\* crypto_hash_update_varint(len) then crypto_hash_update(bytes, len)
ScriptCodeItems(len, bytes) ==
    << Item("varint", NoTx, 0, 0, len, NoBytes),
       Item("bytes", NoTx, 0, 0, len, bytes) >>

\* call_psbt_process_redeemScript: the script stored under the key is fed,
\* length-prefixed, to the hash context, and the P2SH scriptPubKey of its
\* hash is left in the subcontext
psbt_process_redeemScript ==
    /\ pc = "flow"
    /\ flow.name = "psbt_process_redeemScript"
    /\ flow.key \in state.cur_input_map.keys
    /\ MapValue(state.cur_input_map, flow.key) # NoBytes
    /\ LET script == MapValue(state.cur_input_map, flow.key)
       IN  state' = [state EXCEPT
              !.hash_context = @ \o ScriptCodeItems(Len(script), script),
              !.subcontext = SubContext(0, 0, NoHash, 0, NoScript, P2SHScript(script))]
    /\ next(flow.cont)
    /\ UNCHANGED <<prior, apdu, unsigned_tx, private_key, chain_code, steps, signed>>

----------------------------------------------------------------------------
(* The processors of sign_psbt.c *)

\* the replay asked for the prevout of the input after the current one
ReplayInputIndex_NextInput(st) == st.cur_input_index + 1

\* the input whose prevout process_next_input asks the replay to extract
ReplayInputIndex(st) == st.cur_input_index

process_next_input ==
    /\ pc = "process_next_input"
    /\ Ran("process_next_input")
    /\ state' = [state EXCEPT !.hash_context = cx_sha256_init,
                              !.tmp = PSBT_GLOBAL_UNSIGNED_TX]
    /\ call(Flow("psbt_parse_rawtx", "receive_global_tx_info", "global_map",
                 state.global_map_size, PSBT_GLOBAL_UNSIGNED_TX, PARSEMODE_TXID,
                 ReplayInputIndex(state), -1, 0))
    /\ UNCHANGED <<prior, apdu, unsigned_tx, private_key, chain_code, signed>>

\* the comparison of the outputs left out
CountsMatch_InputsOnly(st) ==
    st.n_inputs = st.subcontext.n_inputs

\* state->n_inputs and state->n_outputs against the counts of the replay
CountsMatch(st) ==
    /\ st.n_inputs = st.subcontext.n_inputs
    /\ st.n_outputs = st.subcontext.n_outputs

receive_global_tx_info ==
    /\ pc = "receive_global_tx_info"
    /\ Ran("receive_global_tx_info")
    /\ LET st == [state EXCEPT
                    !.cur_prevout_hash = state.subcontext.prevout_hash,
                    !.cur_prevout_n = state.subcontext.prevout_n]
       IN  IF ~CountsMatch(st)
             THEN /\ state' = st
                  /\ send_sw(SW_INCORRECT_DATA)
             ELSE /\ state' = [st EXCEPT !.cur_input_index = 0]
                  /\ next("request_next_input_map")
    /\ UNCHANGED <<prior, apdu, unsigned_tx, private_key, chain_code, signed>>

\* the per-input fields request_next_input_map resets before the key scan
ResetInputFlags(st) ==
    [st EXCEPT !.cur_input_has_witnessUtxo = FALSE,
               !.cur_input_has_redeemScript = FALSE]

request_next_input_map ==
    /\ pc = "request_next_input_map"
    /\ Ran("request_next_input_map")
    /\ state' = ResetInputFlags(state)
    /\ call(Flow("get_merkleized_map", "process_input_map", "inputs",
                 state.n_inputs, "", "", state.cur_input_index, 0, 0))
    /\ UNCHANGED <<prior, apdu, unsigned_tx, private_key, chain_code, signed>>

process_input_map ==
    /\ pc = "process_input_map"
    /\ Ran("process_input_map")
    /\ IF state.cur_input_has_sighash_type
         THEN /\ state' = [state EXCEPT !.tmp = PSBT_IN_SIGHASH_TYPE]
              /\ call(Flow("get_merkleized_map_value", "receive_sighash_type",
                           "cur_input_map", 0, PSBT_IN_SIGHASH_TYPE, "", 0, 0, 0))
         ELSE /\ state' = state
              /\ send_sw(SW_INCORRECT_DATA)
    /\ UNCHANGED <<prior, apdu, unsigned_tx, private_key, chain_code, signed>>

\* the prevout verification skipped
receive_sighash_type_SkipsPrevout ==
    /\ pc = "receive_sighash_type"
    /\ Ran("receive_sighash_type")
    /\ state' = [state EXCEPT
           !.cur_input_sighash_type = read_u32_le(state.cur_input_sighash_type_le)]
    /\ next("sign_legacy")
    /\ UNCHANGED <<prior, apdu, unsigned_tx, private_key, chain_code, signed>>

receive_sighash_type ==
    /\ pc = "receive_sighash_type"
    /\ Ran("receive_sighash_type")
    /\ state' = [state EXCEPT
           !.cur_input_sighash_type = read_u32_le(state.cur_input_sighash_type_le)]
    /\ next("request_non_witness_utxo")
    /\ UNCHANGED <<prior, apdu, unsigned_tx, private_key, chain_code, signed>>

request_non_witness_utxo ==
    /\ pc = "request_non_witness_utxo"
    /\ Ran("request_non_witness_utxo")
    /\ state' = [state EXCEPT !.tmp = PSBT_IN_NON_WITNESS_UTXO,
                              !.hash_context = cx_sha256_init]
    /\ call(Flow("psbt_parse_rawtx", "receive_non_witness_utxo", "cur_input_map",
                 0, PSBT_IN_NON_WITNESS_UTXO, PARSEMODE_TXID,
                 -1, state.cur_prevout_n, 0))
    /\ UNCHANGED <<prior, apdu, unsigned_tx, private_key, chain_code, signed>>

\* the result of memcmp taken the wrong way round
TxhashMatchesPrevout_Inverted(st) ==
    DoubleSha256(st.hash_context) # st.cur_prevout_hash

\* memcmp(txhash, state->cur_prevout_hash, 32) == 0, txhash the double
\* SHA-256 of the hash context
TxhashMatchesPrevout(st) ==
    DoubleSha256(st.hash_context) = st.cur_prevout_hash

\* the bound taken one too high
ScriptPubKeyTooLong_OffByOne(len) == len > MAX_PREVOUT_SCRIPTPUBKEY_LEN + 1

\* cur_input_prevout_scriptpubkey_len > MAX_PREVOUT_SCRIPTPUBKEY_LEN
ScriptPubKeyTooLong(len) == len > MAX_PREVOUT_SCRIPTPUBKEY_LEN

\* the dispatch made on the redeem script flag
SigningPath_OnRedeemScript(st) ==
    IF ~st.cur_input_has_redeemScript THEN "sign_legacy" ELSE "sign_segwit"

\* the dispatch at the end of receive_non_witness_utxo
SigningPath(st) ==
    IF ~st.cur_input_has_witnessUtxo THEN "sign_legacy" ELSE "sign_segwit"

receive_non_witness_utxo ==
    /\ pc = "receive_non_witness_utxo"
    /\ Ran("receive_non_witness_utxo")
    /\ IF ~TxhashMatchesPrevout(state)
         THEN /\ state' = state
              /\ send_sw(SW_INCORRECT_DATA)
         ELSE LET spk == state.subcontext.vout_scriptpubkey
                  st == [state EXCEPT !.cur_input_prevout_scriptpubkey_len = spk.len]
              IN  IF ScriptPubKeyTooLong(st.cur_input_prevout_scriptpubkey_len)
                    THEN /\ state' = st
                         /\ send_sw(SW_SIGNATURE_FAIL)
                    ELSE /\ state' = [st EXCEPT
                                !.cur_input_prevout_scriptpubkey = spk.bytes]
                         /\ next(SigningPath(st))
    /\ UNCHANGED <<prior, apdu, unsigned_tx, private_key, chain_code, signed>>

sign_legacy ==
    /\ pc = "sign_legacy"
    /\ Ran("sign_legacy")
    /\ state' = [state EXCEPT !.hash_context = cx_sha256_init,
                              !.tmp = PSBT_GLOBAL_UNSIGNED_TX]
    /\ call(Flow("psbt_parse_rawtx", "sign_legacy_first_pass_completed",
                 "global_map", state.global_map_size, PSBT_GLOBAL_UNSIGNED_TX,
                 PARSEMODE_LEGACY_PASS1, state.cur_input_index, -1,
                 state.cur_input_sighash_type))
    /\ UNCHANGED <<prior, apdu, unsigned_tx, private_key, chain_code, signed>>

\* the key sign_legacy_first_pass_completed puts in state->tmp for
\* call_psbt_process_redeemScript
RedeemScriptKey == PSBT_IN_SIGHASH_TYPE

sign_legacy_first_pass_completed ==
    /\ pc = "sign_legacy_first_pass_completed"
    /\ Ran("sign_legacy_first_pass_completed")
    /\ IF ~state.cur_input_has_redeemScript
         THEN /\ state' = [state EXCEPT
                     !.hash_context =
                         @ \o ScriptCodeItems(state.cur_input_prevout_scriptpubkey_len,
                                              state.cur_input_prevout_scriptpubkey)]
              /\ next("sign_legacy_start_second_pass")
         ELSE /\ state' = [state EXCEPT !.tmp = RedeemScriptKey]
              /\ call(Flow("psbt_process_redeemScript",
                           "sign_legacy_validate_redeemScript", "cur_input_map",
                           0, RedeemScriptKey, "", 0, 0, 0))
    /\ UNCHANGED <<prior, apdu, unsigned_tx, private_key, chain_code, signed>>

\* the two checks of sign_legacy_validate_redeemScript: the length, then
\* memcmp of the stored scriptPubKey with the flow's p2sh_script over 22 bytes
RedeemScriptMatches(st) ==
    /\ st.cur_input_prevout_scriptpubkey_len = P2SH_SCRIPT_LEN
    /\ st.cur_input_prevout_scriptpubkey = st.subcontext.p2sh_script.bytes

sign_legacy_validate_redeemScript ==
    /\ pc = "sign_legacy_validate_redeemScript"
    /\ Ran("sign_legacy_validate_redeemScript")
    /\ IF ~RedeemScriptMatches(state)
         THEN send_sw(SW_INCORRECT_DATA)
         ELSE next("sign_legacy_start_second_pass")
    /\ UNCHANGED <<prior, apdu, unsigned_tx, state, private_key, chain_code, signed>>

\* the hash context initialised again before the second pass
sign_legacy_start_second_pass_NewContext ==
    /\ pc = "sign_legacy_start_second_pass"
    /\ Ran("sign_legacy_start_second_pass")
    /\ state' = [state EXCEPT !.hash_context = cx_sha256_init,
                              !.tmp = PSBT_GLOBAL_UNSIGNED_TX]
    /\ call(Flow("psbt_parse_rawtx", "compute_sighash_and_sign_legacy",
                 "global_map", state.global_map_size, PSBT_GLOBAL_UNSIGNED_TX,
                 PARSEMODE_LEGACY_PASS2, state.cur_input_index, -1,
                 state.cur_input_sighash_type))
    /\ UNCHANGED <<prior, apdu, unsigned_tx, private_key, chain_code, signed>>

sign_legacy_start_second_pass ==
    /\ pc = "sign_legacy_start_second_pass"
    /\ Ran("sign_legacy_start_second_pass")
    /\ state' = [state EXCEPT !.tmp = PSBT_GLOBAL_UNSIGNED_TX]
    /\ call(Flow("psbt_parse_rawtx", "compute_sighash_and_sign_legacy",
                 "global_map", state.global_map_size, PSBT_GLOBAL_UNSIGNED_TX,
                 PARSEMODE_LEGACY_PASS2, state.cur_input_index, -1,
                 state.cur_input_sighash_type))
    /\ UNCHANGED <<prior, apdu, unsigned_tx, private_key, chain_code, signed>>

\* the signing block without the final dc->send_sw(SW_OK)
SignResult_NoStatus(throws) ==
    IF throws
      THEN [private_key |-> "secret", chain_code |-> "secret", status |-> ""]
      ELSE [private_key |-> "zero", chain_code |-> "secret", status |-> ""]

\* The signing block of compute_sighash_and_sign_legacy, from the
\* declaration of private_key to the end of the function.  Both buffers are
\* zero-initialised and filled by crypto_derive_private_key.  When
\* cx_ecdsa_sign throws, CATCH_OTHER runs `return;`: a C return statement
\* leaves the function there, so neither the statements of the FINALLY block
\* (which follow it) nor send_sw run.  Otherwise the FINALLY block zeroes
\* private_key and SW_OK is sent.  chain_code is not written again.
SignResult(throws) ==
    IF throws
      THEN [private_key |-> "secret", chain_code |-> "secret", status |-> ""]
      ELSE [private_key |-> "zero", chain_code |-> "secret", status |-> SW_OK]

compute_sighash_and_sign_legacy ==
    /\ pc = "compute_sighash_and_sign_legacy"
    /\ Ran("compute_sighash_and_sign_legacy")
    /\ \E throws \in BOOLEAN :
         LET r == SignResult(throws)
         IN  /\ signed' = Append(signed,
                     [input |-> state.cur_input_index,
                      sighash |-> DoubleSha256(state.hash_context),
                      thrown |-> throws])
             /\ private_key' = r.private_key
             /\ chain_code' = r.chain_code
             /\ IF r.status = ""
                  THEN pc' = "returned" /\ flow' = NoFlow /\ sw' = sw
                  ELSE send_sw(r.status)
    /\ UNCHANGED <<prior, apdu, unsigned_tx, state>>

sign_segwit ==
    /\ pc = "sign_segwit"
    /\ Ran("sign_segwit")
    /\ send_sw(SW_BAD_STATE)
    /\ UNCHANGED <<prior, apdu, unsigned_tx, state, private_key, chain_code, signed>>

----------------------------------------------------------------------------

Next ==
    \/ handler_sign_psbt
    \/ command_end
    \/ flow_failed
    \/ check_merkle_tree_sorted
    \/ psbt_parse_rawtx
    \/ get_merkleized_map
    \/ get_merkleized_map_value
    \/ psbt_process_redeemScript
    \/ process_next_input
    \/ receive_global_tx_info
    \/ request_next_input_map
    \/ process_input_map
    \/ receive_sighash_type
    \/ request_non_witness_utxo
    \/ receive_non_witness_utxo
    \/ sign_legacy
    \/ sign_legacy_first_pass_completed
    \/ sign_legacy_validate_redeemScript
    \/ sign_legacy_start_second_pass
    \/ compute_sighash_and_sign_legacy
    \/ sign_segwit

Spec == Init /\ [][Next]_vars

\* The program served by a host that answers every request: no flow fails.
\* The dispatcher runs the processor named by dc->next() as soon as the one
\* before returns, and a flow goes on as soon as the host answers, so a step
\* that can be taken is taken.
LiveNext ==
    \/ handler_sign_psbt
    \/ command_end
    \/ check_merkle_tree_sorted
    \/ psbt_parse_rawtx
    \/ get_merkleized_map
    \/ get_merkleized_map_value
    \/ psbt_process_redeemScript
    \/ process_next_input
    \/ receive_global_tx_info
    \/ request_next_input_map
    \/ process_input_map
    \/ receive_sighash_type
    \/ request_non_witness_utxo
    \/ receive_non_witness_utxo
    \/ sign_legacy
    \/ sign_legacy_first_pass_completed
    \/ sign_legacy_validate_redeemScript
    \/ sign_legacy_start_second_pass
    \/ compute_sighash_and_sign_legacy
    \/ sign_segwit

LiveSpec == Init /\ [][LiveNext]_vars /\ WF_vars(LiveNext)

----------------------------------------------------------------------------
(* Vocabulary of the properties *)

\* the function was run for the command being served
RanStep(name) == \E i \in 1..Len(steps) : steps[i] = name

\* the command being served is over
Returned == pc = "returned"

\* the inputs cx_ecdsa_sign was called for, in order
SignedInputs == [i \in 1..Len(signed) |-> signed[i].input]

----------------------------------------------------------------------------
(* C1 .. C5: the status returned, the order of the inputs, the secrets *)

\* C1: every invocation of handler_sign_psbt returns exactly one status:
\* when the command is over, send_sw has been called once and only once,
\* on every path, signing failure inside cx_ecdsa_sign included.
C1_ExactlyOneStatusPerInvocation ==
    /\ Len(sw) <= 1
    /\ Returned => Len(sw) = 1

\* C2: SW_OK is sent only after cx_ecdsa_sign was called once for each input
\* 0 .. n_inputs-1, in increasing order.
C2_OkOnlyAfterAllInputsSigned ==
    (sw # <<>> /\ sw[Len(sw)] = SW_OK)
        => SignedInputs = [i \in 1..state.n_inputs |-> i - 1]

\* C3: after a signing attempt, whether cx_ecdsa_sign succeeded or threw,
\* the private key buffer is all-zero when compute_sighash_and_sign_legacy
\* has returned; and it holds no secret while the state machine waits for
\* the host.
C3_PrivateKeyZeroAfterSigning ==
    /\ RanStep("compute_sighash_and_sign_legacy") => private_key = "zero"
    /\ pc = "flow" => private_key # "secret"

\* C4: after a signing attempt, on every exit path of
\* compute_sighash_and_sign_legacy, the chain code buffer filled by
\* crypto_derive_private_key has been overwritten with zeros.
C4_ChainCodeZeroAfterSigning ==
    RanStep("compute_sighash_and_sign_legacy") => chain_code = "zero"

\* C5: when cx_ecdsa_sign throws, the session ends by reporting
\* SW_SIGNATURE_FAIL: never without a status, never with SW_OK.
C5_SigningFailureReported ==
    (Returned /\ signed # <<>> /\ signed[Len(signed)].thrown)
        => sw = <<SW_SIGNATURE_FAIL>>

----------------------------------------------------------------------------
(* C6 .. C10: the checks that abort the session *)

\* the last function of sign_psbt.c run for the command
LastStep == steps[Len(steps)]

\* the session was aborted with SW_INCORRECT_DATA by the function `name`,
\* which was the last to run: nothing was signed and no flow is in progress
AbortedBy(name) ==
    /\ Returned
    /\ sw = <<SW_INCORRECT_DATA>>
    /\ LastStep = name
    /\ signed = <<>>
    /\ flow = NoFlow

C7_SigningOnlyAfterTxidMatch ==
    LET supplied == TxId(state.cur_input_map.nwu)
        recorded == PrevoutHash(unsigned_tx, state.cur_input_index)
    IN  /\ (RanStep("sign_legacy") \/ signed # <<>>)
              => (supplied = recorded /\ state.cur_prevout_hash = recorded)
        /\ (RanStep("receive_non_witness_utxo") /\ supplied # recorded)
              => AbortedBy("receive_non_witness_utxo")

\* a previous transaction other than the committed one was supplied and
\* receive_non_witness_utxo has run
C7_Witness ==
    /\ RanStep("receive_non_witness_utxo")
    /\ TxId(state.cur_input_map.nwu) # PrevoutHash(unsigned_tx, state.cur_input_index)
    /\ state.cur_input_map.nwu.out_spk = unsigned_tx.prev_spk

\* C8: for an input that declares a redeem script, if the committed
\* scriptPubKey is not 22 bytes long or differs from the P2SH encoding of
\* the hash of the redeem script, the session ends with SW_INCORRECT_DATA,
\* the second pass is not started and the signer is not called.
C8_RedeemScriptMismatchRejected ==
    (RanStep("sign_legacy_validate_redeemScript")
        /\ PSBT_IN_REDEEM_SCRIPT \in state.cur_input_map.keys
        /\ Script(state.cur_input_prevout_scriptpubkey_len,
                  state.cur_input_prevout_scriptpubkey)
             # P2SHScript(state.cur_input_map.redeem))
    => (AbortedBy("sign_legacy_validate_redeemScript")
          /\ ~RanStep("sign_legacy_start_second_pass"))

\* the counts declared in the command header
DeclaredNInputs == apdu.read_buffer[4].v
DeclaredNOutputs == apdu.read_buffer[6].v

\* C9: when the counts of the replayed unsigned transaction differ from the
\* declared n_inputs / n_outputs, the session ends with SW_INCORRECT_DATA
\* before any input map is fetched; the input loop is entered only when
\* both are equal.
C9_CountMismatchRejected ==
    /\ (RanStep("receive_global_tx_info")
          /\ (DeclaredNInputs # unsigned_tx.n_inputs
                \/ DeclaredNOutputs # unsigned_tx.n_outputs))
        => (AbortedBy("receive_global_tx_info")
              /\ ~RanStep("request_next_input_map"))
    /\ RanStep("request_next_input_map")
        => (DeclaredNInputs = unsigned_tx.n_inputs
              /\ DeclaredNOutputs = unsigned_tx.n_outputs)

\* the replay found the declared number of inputs but another number of
\* outputs, and receive_global_tx_info has run
C9_Witness ==
    /\ RanStep("receive_global_tx_info")
    /\ DeclaredNInputs = unsigned_tx.n_inputs
    /\ DeclaredNOutputs # unsigned_tx.n_outputs
    /\ Returned

\* the fields of the command data that hold a count
CountFields == {1, 4, 6}

\* the command data holds, at field pos, a count above 252
CarriesOversizeCount(pos) ==
    /\ pos \in CountFields
    /\ pos <= Len(apdu.read_buffer)
    /\ apdu.read_buffer[pos].v > MAX_N_MAP_ENTRIES

\* the handler rejected the command: a status was sent and nothing else of
\* sign_psbt.c ran, no flow was started
RejectedByHandler ==
    /\ Returned
    /\ Len(sw) = 1
    /\ steps = <<"handler_sign_psbt">>
    /\ flow = NoFlow
    /\ unsigned_tx = NoTx

\* C10 as stated: every command buffer carrying a count above 252 is
\* rejected by the handler with SW_INCORRECT_DATA before any map is fetched
\* (taken for a command with p1 = p2 = 0 sent to an unlocked device).
C10_OversizeCountIsIncorrectData ==
    (steps # <<>> /\ apdu.p1 = 0 /\ apdu.p2 = 0 /\ apdu.pin_validated
        /\ \E pos \in CountFields : CarriesOversizeCount(pos))
    => (RejectedByHandler /\ sw = <<SW_INCORRECT_DATA>>)

\* the first count above 252 is at field pos and the data holds all the
\* handler reads before it compares that count: the fields up to the count
\* and, for the input and output counts, the 20-byte root that follows
ReadsOversizeCount(pos) ==
    /\ CarriesOversizeCount(pos)
    /\ \A q \in CountFields : q < pos => ~CarriesOversizeCount(q)
    /\ Len(apdu.read_buffer) >= (IF pos = 1 THEN 1 ELSE pos + 1)

\* C10 as amended: every command carrying a count above 252 is rejected by
\* the handler before any map is fetched; the status is SW_INCORRECT_DATA
\* when p1 = p2 = 0, the device is unlocked and the data holds all the
\* handler reads before it compares the count, and SW_WRONG_P1P2,
\* SW_SECURITY_STATUS_NOT_SATISFIED or SW_WRONG_DATA_LENGTH otherwise.
C10_OversizeCountRejected ==
    (steps # <<>> /\ \E pos \in CountFields : CarriesOversizeCount(pos))
    => /\ RejectedByHandler
       /\ IF apdu.p1 = 0 /\ apdu.p2 = 0 /\ apdu.pin_validated
               /\ \E pos \in CountFields : ReadsOversizeCount(pos)
            THEN sw = <<SW_INCORRECT_DATA>>
            ELSE sw[1] \in {SW_WRONG_P1P2, SW_SECURITY_STATUS_NOT_SATISFIED,
                            SW_WRONG_DATA_LENGTH}

\* a complete command declaring 253 outputs, and valid counts before it,
\* was served
C10_Witness ==
    /\ steps # <<>>
    /\ apdu.p1 = 0 /\ apdu.p2 = 0 /\ apdu.pin_validated
    /\ ReadsOversizeCount(6)
    /\ Len(apdu.read_buffer) = 7

----------------------------------------------------------------------------
(* C11 .. C12: the previous output and the choice of the signing path *)

\* the previous transaction the host supplied is the one the input spends
SuppliedPrevTxMatches ==
    TxId(state.cur_input_map.nwu) = PrevoutHash(unsigned_tx, state.cur_input_index)

\* the functions that read the stored scriptPubKey
UsesStoredScriptPubKey ==
    {"sign_legacy_first_pass_completed", "sign_legacy_validate_redeemScript"}

\* C11: a previous-output scriptPubKey longer than
\* MAX_PREVOUT_SCRIPTPUBKEY_LEN is rejected with SW_SIGNATURE_FAIL and no
\* byte of it is copied to cur_input_prevout_scriptpubkey; wherever the
\* stored scriptPubKey is used, its recorded length is at most the maximum
\* and it is the whole scriptPubKey of the previous output.
C11_LongScriptPubKeyRejected ==
    /\ (RanStep("receive_non_witness_utxo") /\ SuppliedPrevTxMatches
          /\ state.cur_input_map.nwu.out_spk.len > MAX_PREVOUT_SCRIPTPUBKEY_LEN)
        => /\ Returned
           /\ sw = <<SW_SIGNATURE_FAIL>>
           /\ LastStep = "receive_non_witness_utxo"
           /\ signed = <<>>
           /\ state.cur_input_prevout_scriptpubkey = NoBytes
    /\ (pc \in UsesStoredScriptPubKey
          \/ \E f \in UsesStoredScriptPubKey : RanStep(f))
        => /\ state.cur_input_prevout_scriptpubkey_len <= MAX_PREVOUT_SCRIPTPUBKEY_LEN
           /\ Script(state.cur_input_prevout_scriptpubkey_len,
                     state.cur_input_prevout_scriptpubkey)
                = state.cur_input_map.nwu.out_spk

\* the matching previous transaction has an output script of 35 bytes and
\* receive_non_witness_utxo has run
C11_Witness ==
    /\ RanStep("receive_non_witness_utxo")
    /\ SuppliedPrevTxMatches
    /\ state.cur_input_map.nwu.out_spk = LongScript
    /\ Returned

\* C12: after the prevout is verified the path depends on the witness-UTXO
\* key of the input's map alone: without the key sign_legacy is entered;
\* with it the session ends with SW_BAD_STATE and neither a sighash pass
\* nor the signer runs.
C12_DispatchOnWitnessUtxo ==
    LET has_witnessUtxo == PSBT_IN_WITNESS_UTXO \in state.cur_input_map.keys
    IN  /\ pc \in {"sign_legacy", "sign_segwit"}
              => (pc = "sign_legacy" <=> ~has_witnessUtxo)
        /\ RanStep("sign_legacy") => ~has_witnessUtxo
        /\ RanStep("sign_segwit")
              => /\ has_witnessUtxo
                 /\ Returned
                 /\ sw = <<SW_BAD_STATE>>
                 /\ LastStep = "sign_segwit"
        /\ (RanStep("receive_non_witness_utxo") /\ has_witnessUtxo)
              => (~RanStep("sign_legacy") /\ signed = <<>>)

\* an input with a witness-UTXO key and no redeem script reached sign_segwit
C12_Witness ==
    /\ RanStep("sign_segwit")
    /\ PSBT_IN_WITNESS_UTXO \in state.cur_input_map.keys
    /\ PSBT_IN_REDEEM_SCRIPT \notin state.cur_input_map.keys

----------------------------------------------------------------------------
(* C13: the valid session with one input and one output *)

\* a command declaring one input and one output was accepted by the handler
OneInputCommandAccepted ==
    /\ steps = <<"handler_sign_psbt">>
    /\ pc = "flow"
    /\ DeclaredNInputs = 1
    /\ DeclaredNOutputs = 1

\* the map of a legacy input that can be signed: a sighash type, the
\* previous transaction the input spends, no witness UTXO, no redeem script,
\* and a previous output script within the size limit
ValidLegacyMap(m) ==
    /\ m.keys = {PSBT_IN_SIGHASH_TYPE, PSBT_IN_NON_WITNESS_UTXO}
    /\ TxId(m.nwu) = PrevoutHash(unsigned_tx, 0)
    /\ m.nwu.out_spk.len <= MAX_PREVOUT_SCRIPTPUBKEY_LEN

\* the session is not the valid one: the committed transaction has not one
\* input and one output, the input's map is not that of a legacy input that
\* can be signed, or cx_ecdsa_sign threw
NotTheValidSession ==
    \/ unsigned_tx # NoTx
          /\ (unsigned_tx.n_inputs # 1 \/ unsigned_tx.n_outputs # 1)
    \/ (pc = "process_input_map" \/ RanStep("process_input_map"))
          /\ ~ValidLegacyMap(state.cur_input_map)
    \/ signed # <<>> /\ signed[Len(signed)].thrown

\* the signer was called for input 0 and SW_OK was sent
SignedAndOk ==
    /\ Returned
    /\ sw = <<SW_OK>>
    /\ SignedInputs = <<0>>

\* C13: a fully valid session with one input and one output, the host
\* answering every request and the signing succeeding, eventually reaches
\* the signer and ends with SW_OK.
C13_ValidSessionEndsOk ==
    OneInputCommandAccepted ~> (SignedAndOk \/ NotTheValidSession)

\* the valid session, with a P2PKH previous output and SIGHASH_ALL, ended
\* with SW_OK
C13_Witness ==
    /\ SignedAndOk
    /\ DeclaredNInputs = 1
    /\ DeclaredNOutputs = 1
    /\ ValidLegacyMap(state.cur_input_map)
    /\ state.cur_input_map.nwu.out_spk = P2PKHScript
    /\ state.cur_input_sighash_type = 1

----------------------------------------------------------------------------
(* C14: nothing of a command is left for the next *)

----------------------------------------------------------------------------
(* C15: the order of the steps *)

\* the functions run up to the end of the prevout verification
UpToPrevoutVerify ==
    << "handler_sign_psbt", "process_next_input", "receive_global_tx_info",
       "request_next_input_map", "process_input_map", "receive_sighash_type",
       "request_non_witness_utxo", "receive_non_witness_utxo" >>

\* the orders in which the functions of sign_psbt.c may run for a command:
\* fetch-map, sighash-type, prevout-verify, then pass 1, script-code (with
\* the validation of the redeem script when one is declared), pass 2 and
\* the signer, or the segwit path
StepOrders ==
    { UpToPrevoutVerify \o
         << "sign_legacy", "sign_legacy_first_pass_completed",
            "sign_legacy_start_second_pass", "compute_sighash_and_sign_legacy" >>,
      UpToPrevoutVerify \o
         << "sign_legacy", "sign_legacy_first_pass_completed",
            "sign_legacy_validate_redeemScript",
            "sign_legacy_start_second_pass", "compute_sighash_and_sign_legacy" >>,
      UpToPrevoutVerify \o << "sign_segwit" >> }

IsPrefix(s, t) == Len(s) <= Len(t) /\ s = SubSeq(t, 1, Len(s))

InOrder(s) == \E o \in StepOrders : IsPrefix(s, o)

\* C15: the sub-steps run strictly in the order fetch-map, sighash-type,
\* prevout-verify, sighash-compute, sign.  The functions run so far are a
\* prefix of that order; the step about to run, and the continuation of the
\* flow in progress, is the one that follows the last step run; there is
\* one flow in progress while the state machine waits and none otherwise;
\* once a status was sent nothing is started.
C15_StepsInOrder ==
    /\ InOrder(steps)
    /\ pc = "flow" => (flow # NoFlow /\ InOrder(Append(steps, flow.cont)))
    /\ pc # "flow" => flow = NoFlow
    /\ pc \notin {"idle", "flow", "returned"} => InOrder(Append(steps, pc))
    /\ sw # <<>> => pc = "returned"

\* a legacy input went through every step, the signer included
C15_Witness ==
    /\ Len(steps) = 12
    /\ LastStep = "compute_sighash_and_sign_legacy"
    /\ Returned

----------------------------------------------------------------------------
(* C16 .. C17: what is hashed for the signature *)

\* the last n elements fed to the hash context
LastItems(ctx, n) == SubSeq(ctx, Len(ctx) - n + 1, Len(ctx))

\* C16: when the input declares a redeem script, the script-code appended
\* to the hash context after pass 1, and the script whose P2SH encoding is
\* compared with the committed scriptPubKey, is the value stored under
\* PSBT_IN_REDEEM_SCRIPT in the input's map.
C16_ScriptCodeIsRedeemScript ==
    pc = "sign_legacy_validate_redeemScript"
    => LET redeem == state.cur_input_map.redeem
       IN  /\ LastItems(state.hash_context, 2)
                = ScriptCodeItems(Len(redeem), redeem)
           /\ state.subcontext.p2sh_script = P2SHScript(redeem)

\* what a pass of the legacy sighash over the unsigned transaction feeds to
\* the hash context for the current input and its sighash type
PassOutput(mode) ==
    Item(mode, unsigned_tx, state.cur_input_index,
         read_u32_le(state.cur_input_map.sighash_le), 0, NoBytes)

\* the compact-size length of the committed previous-output scriptPubKey,
\* then the scriptPubKey
PrevoutScriptCode ==
    LET spk == state.cur_input_map.nwu.out_spk
    IN  << Item("varint", NoTx, 0, 0, spk.len, NoBytes),
           Item("bytes", NoTx, 0, 0, spk.len, spk.bytes) >>

\* the input being processed declares no redeem script
NoRedeemScript == PSBT_IN_REDEEM_SCRIPT \notin state.cur_input_map.keys

\* C17: for a legacy input without a redeem script the data hashed for the
\* sighash is the pass-1 output, the length-prefixed scriptPubKey of the
\* committed previous output, and the pass-2 output, in a context that
\* holds nothing of the earlier txid computations and is not reset between
\* the passes; both passes are run for the same input and sighash type.
C17_LegacyPreimage ==
    /\ pc = "sign_legacy_first_pass_completed"
          => state.hash_context = <<PassOutput(PARSEMODE_LEGACY_PASS1)>>
    /\ (pc = "sign_legacy_start_second_pass" /\ NoRedeemScript)
          => state.hash_context
               = <<PassOutput(PARSEMODE_LEGACY_PASS1)>> \o PrevoutScriptCode
    /\ (signed # <<>> /\ NoRedeemScript)
          => /\ Len(signed) = 1
             /\ signed[1].sighash
                  = DoubleSha256(<<PassOutput(PARSEMODE_LEGACY_PASS1)>>
                                   \o PrevoutScriptCode
                                   \o <<PassOutput(PARSEMODE_LEGACY_PASS2)>>)

\* an input spending a P2PKH output with SIGHASH_ALL | SIGHASH_ANYONECANPAY
\* was signed
C17_Witness ==
    /\ signed # <<>>
    /\ ~signed[1].thrown
    /\ NoRedeemScript
    /\ state.cur_input_map.nwu.out_spk = P2PKHScript
    /\ state.cur_input_sighash_type = 129

----------------------------------------------------------------------------
(* C18 .. C20: the fields of the current input *)

\* the key scan of the current input's map is in progress
ScanStarted == pc = "flow" /\ flow.name = "get_merkleized_map"

\* the key scan of the current input's map is over
ScanDone == pc = "process_input_map" \/ RanStep("process_input_map")

ProcessingInput ==
    /\ RanStep("request_next_input_map")
    /\ state.cur_input_index \in 0..(unsigned_tx.n_inputs - 1)

\* C19: while input i is processed, cur_prevout_hash and cur_prevout_n are
\* the prevout of input i of the committed unsigned transaction: the map is
\* fetched for the input whose prevout the replay extracted, and the
\* previous transaction is verified against that prevout.
C19_PrevoutOfCurrentInput ==
    /\ ProcessingInput
          => /\ state.cur_prevout_hash
                   = PrevoutHash(unsigned_tx, state.cur_input_index)
             /\ state.cur_prevout_n = 0
    /\ (ProcessingInput /\ ScanStarted)
          => flow.input_index = state.cur_input_index
    /\ (ProcessingInput /\ pc = "flow" /\ flow.cont = "receive_non_witness_utxo")
          => flow.output_index = state.cur_prevout_n

\* the previous transaction of an input of a two-input transaction was
\* verified
C19_Witness ==
    /\ ProcessingInput
    /\ unsigned_tx.n_inputs = 2
    /\ RanStep("sign_legacy")

\* C20: whenever an input map is requested from the host, cur_input_index
\* is in 0 .. n_inputs-1; a session declaring no input requests no input map
\* and never calls the signer.
C20_InputIndexInRange ==
    /\ ScanStarted
          => (flow.input_index = state.cur_input_index
                /\ state.cur_input_index \in 0..(state.n_inputs - 1))
    /\ (RanStep("receive_global_tx_info") /\ state.n_inputs = 0)
          => (~RanStep("request_next_input_map") /\ signed = <<>>)

====
